---- MODULE Spec2Model ----
(***************************************************************************)
(* RelayManager (src/nostr/relay_manager.py): the registry of relays, the  *)
(* manager lock, the subscription and publish fan-outs and the connection  *)
(* monitor thread.  Caller threads and the monitor thread are processes;   *)
(* every `with self.lock` block is an acquire step, the steps of its body  *)
(* and a release step, so that interleavings are visible.                  *)
(*                                                                         *)
(* Relay, Event and Request are collaborators whose code is outside        *)
(* relay_manager.py.  A Relay is modelled by the interface the manager     *)
(* calls: connect, close, is_connected, publish, add_subscription and      *)
(* close_subscription.  connect and publish are transport calls: each may  *)
(* return normally or raise.                                               *)
(***************************************************************************)
EXTENDS Integers, Sequences, FiniteSets, TLC

\* ---------------------------------------------------------------- bounds
\* number of distinct subscription ids the callers use
NumSubIds == 2

Callers == {"c1", "c2"}
Mon == "mon"
Threads == Callers \cup {Mon}
Urls == {"u1", "u2"}
SubIds == 1..NumSubIds
Events == {"unsigned", "badsig", "valid"}
\* RelayPolicy(should_read, should_write); the first is the default policy
Policies == { [should_read |-> TRUE, should_write |-> TRUE],
              [should_read |-> TRUE, should_write |-> FALSE],
              [should_read |-> FALSE, should_write |-> TRUE] }

NoPolicy == [should_read |-> FALSE, should_write |-> FALSE]
NoCall == [name |-> "none", url |-> "none", id |-> 0, ev |-> "none", policy |-> NoPolicy]

VARIABLES
  relays,        \* self.relays: insertion-ordered dict url -> Relay, a sequence of Relays
  lock,          \* self.lock: TRUE while locked
  stop_threads,  \* self.stop_threads
  pc,            \* position of every thread
  call,          \* the operation a thread is executing and its arguments
  idx,           \* position of a thread's `for relay in self.relays` loop
  log,           \* the Relay methods a thread has invoked in its current call
  outcome,       \* how the current call ends: "ok" or the exception raised
  pre,           \* self.relays as it was when the thread took the lock (policies
                 \* and subscriptions; the transports' state is not kept)
  issued         \* per url: ids whose REQ was published to the registered relay

vars == << relays, lock, stop_threads, pc, call, idx, log, outcome, pre, issued >>

\* ------------------------------------------------------- dict operations
RECURSIVE IndexOf(_, _, _)
IndexOf(d, u, i) ==
  IF i > Len(d) THEN 0
  ELSE IF d[i].url = u THEN i ELSE IndexOf(d, u, i + 1)

\* url in self.relays
HasKey(d, u) == IndexOf(d, u, 1) # 0

\* self.relays[url]
Lookup(d, u) == d[IndexOf(d, u, 1)]

\* Put that adds an entry even when the key exists
PutAppends(d, u, r) == Append(d, r)

\* self.relays[url] = relay: an existing key keeps its position
Put(d, u, r) ==
  IF HasKey(d, u)
    THEN [d EXCEPT ![IndexOf(d, u, 1)] = r]
    ELSE Append(d, r)

\* self.relays.pop(url)
Pop(d, u) ==
  LET k == IndexOf(d, u, 1)
  IN  SubSeq(d, 1, k - 1) \o SubSeq(d, k + 1, Len(d))

Keys(d) == { d[i].url : i \in 1..Len(d) }

\* number of invocations of method m on the relay of url u in a log
RECURSIVE CountLog(_, _, _)
CountLog(l, u, m) ==
  IF l = << >> THEN 0
  ELSE (IF l[1][1] = u /\ l[1][2] = m THEN 1 ELSE 0) + CountLog(Tail(l), u, m)

\* ------------------------------------------------- the Relay interface
\* Relay(url, message_pool, policy, ...): not connected, no subscriptions
RelayNew(u, p) ==
  [url |-> u, should_read |-> p.should_read, should_write |-> p.should_write,
   connected |-> FALSE, subscriptions |-> {}]

\* relay.connect(...): the attempt leaves the transport connected or not, or raises
ConnectOutcomes == {"connected", "refused", "TransportError"}

\* relay.publish(message): a send on a transport that is not connected may raise
PublishOutcomes(r) == IF r.connected THEN {"ok"} ELSE {"ok", "TransportError"}

\* relay.is_connected()
IsConnected(r) == r.connected

\* relay.close()
RelayClose(r) == [r EXCEPT !.connected = FALSE]

\* relay.add_subscription(id, filters)
RelayAddSubscription(r, id) == [r EXCEPT !.subscriptions = @ \cup {id}]

\* relay.close_subscription(id)
RelayCloseSubscription(r, id) == [r EXCEPT !.subscriptions = @ \ {id}]

\* Event.signature is not None / Event.verify()
Signed(ev) == ev # "unsigned"
Verify(ev) == ev = "valid"

\* ------------------------------------------------------------------ Init
Init ==
  /\ relays = << >>
  /\ lock = FALSE
  /\ stop_threads = FALSE
  /\ pc = [t \in Threads |-> IF t = Mon THEN "check" ELSE "idle"]
  /\ call = [t \in Threads |-> NoCall]
  /\ idx = [t \in Threads |-> 0]
  /\ log = [t \in Threads |-> << >>]
  /\ outcome = [t \in Threads |-> "none"]
  /\ pre = [t \in Threads |-> << >>]
  /\ issued = [u \in Urls |-> {}]

\* ------------------------------------------------------------- the lock
\* the registry a thread finds when it takes the lock
Snapshot(d) == [i \in 1..Len(d) |-> [d[i] EXCEPT !.connected = FALSE]]

\* Acquire without waiting for the lock to be free
AcquireNoWait(t) ==
  /\ lock' = TRUE
  /\ pc' = [pc EXCEPT ![t] = "body"]
  /\ idx' = [idx EXCEPT ![t] = 1]
  /\ pre' = [pre EXCEPT ![t] = Snapshot(relays)]
  /\ outcome' = [outcome EXCEPT ![t] = "ok"]

\* `with self.lock:` entry: blocks until the lock is free
Acquire(t) ==
  /\ lock = FALSE
  /\ lock' = TRUE
  /\ pc' = [pc EXCEPT ![t] = "body"]
  /\ idx' = [idx EXCEPT ![t] = 1]
  /\ pre' = [pre EXCEPT ![t] = Snapshot(relays)]
  /\ outcome' = [outcome EXCEPT ![t] = "ok"]

\* Release that keeps the lock when the block is left by an exception
ReleaseKeepsOnError(t) ==
  /\ pc[t] = "exit"
  /\ lock' = (outcome[t] # "ok")
  /\ pc' = [pc EXCEPT ![t] =
        IF t # Mon THEN "idle"
        ELSE IF outcome[t] = "ok" THEN "check" ELSE "crashed"]
  /\ call' = [call EXCEPT ![t] = NoCall]
  /\ idx' = [idx EXCEPT ![t] = 0]
  /\ log' = [log EXCEPT ![t] = << >>]
  /\ outcome' = [outcome EXCEPT ![t] = "none"]
  /\ pre' = [pre EXCEPT ![t] = << >>]
  /\ UNCHANGED << relays, stop_threads, issued >>

\* `with self.lock:` exit, on return and on an exception alike
Release(t) ==
  /\ pc[t] = "exit"
  /\ lock' = FALSE
  /\ pc' = [pc EXCEPT ![t] =
        IF t # Mon THEN "idle"
        ELSE IF outcome[t] = "ok" THEN "check" ELSE "crashed"]
  /\ call' = [call EXCEPT ![t] = NoCall]
  /\ idx' = [idx EXCEPT ![t] = 0]
  /\ log' = [log EXCEPT ![t] = << >>]
  /\ outcome' = [outcome EXCEPT ![t] = "none"]
  /\ pre' = [pre EXCEPT ![t] = << >>]
  /\ UNCHANGED << relays, stop_threads, issued >>

\* ------------------------------------------------ a caller starts a call
\* the call of a locked operation, up to the point where it holds the lock
Start(t, c) ==
  /\ pc[t] = "idle"
  /\ call' = [call EXCEPT ![t] = c]
  /\ Acquire(t)
  /\ UNCHANGED << relays, stop_threads, log, issued >>

\* add_relay, lines 49-53
CallAddRelay(t, u, p) ==
  Start(t, [NoCall EXCEPT !.name = "add_relay", !.url = u, !.policy = p])

\* remove_relay, line 58
CallRemoveRelay(t, u) ==
  Start(t, [NoCall EXCEPT !.name = "remove_relay", !.url = u])

\* add_subscription_on_relay, line 64
CallAddSubscriptionOnRelay(t, u, id) ==
  Start(t, [NoCall EXCEPT !.name = "add_subscription_on_relay", !.url = u, !.id = id])

\* add_subscription_on_all_relays, line 76
CallAddSubscriptionOnAllRelays(t, id) ==
  Start(t, [NoCall EXCEPT !.name = "add_subscription_on_all_relays", !.id = id])

\* close_subscription_on_relay, line 84
CallCloseSubscriptionOnRelay(t, u, id) ==
  Start(t, [NoCall EXCEPT !.name = "close_subscription_on_relay", !.url = u, !.id = id])

\* close_subscription_on_all_relays, line 93
CallCloseSubscriptionOnAllRelays(t, id) ==
  Start(t, [NoCall EXCEPT !.name = "close_subscription_on_all_relays", !.id = id])

\* close_all_relay_connections, line 99
CallCloseAllRelayConnections(t) ==
  Start(t, [NoCall EXCEPT !.name = "close_all_relay_connections"])

\* PublishValidate without the call of event.verify()
PublishValidateSignedOnly(ev) == Signed(ev)

\* publish_event, lines 106-110: the event is publishable
PublishValidate(ev) == Signed(ev) /\ Verify(ev)

\* publish_event, lines 106-112: an unsigned or unverifiable event raises
\* before the lock is taken
CallPublishEvent(t, ev) ==
  IF PublishValidate(ev)
    THEN Start(t, [NoCall EXCEPT !.name = "publish_event", !.ev = ev])
    ELSE /\ pc[t] = "idle"
         /\ call' = [call EXCEPT ![t] = [NoCall EXCEPT !.name = "publish_event", !.ev = ev]]
         /\ pc' = [pc EXCEPT ![t] = "ret"]
         /\ outcome' = [outcome EXCEPT ![t] = "RelayException"]
         /\ UNCHANGED << relays, lock, stop_threads, idx, log, pre, issued >>

\* the exception of publish_event reaches the caller
Return(t) ==
  /\ pc[t] = "ret"
  /\ pc' = [pc EXCEPT ![t] = "idle"]
  /\ call' = [call EXCEPT ![t] = NoCall]
  /\ outcome' = [outcome EXCEPT ![t] = "none"]
  /\ UNCHANGED << relays, lock, stop_threads, idx, log, pre, issued >>

\* ------------------------------------------- bodies of the locked blocks
Logged(t, u, m, a) == [log EXCEPT ![t] = Append(@, << u, m, a >>)]

\* the relay variable of a loop iteration or of a looked-up url; a Relay that
\* is no longer in the dict is an object the manager holds no entry for
Detached(u) == RelayNew(u, NoPolicy)
RelayOf(u) == IF HasKey(relays, u) THEN Lookup(relays, u) ELSE Detached(u)
Current(t) == IF idx[t] \in 1..Len(relays) THEN relays[idx[t]] ELSE Detached("none")

\* the position after an iteration of `for relay in self.relays.values()`:
\* the loop head again, or the end of the block after the last relay
NextPc(t) == IF idx[t] + 1 > Len(relays) THEN "exit" ELSE "body"

\* replace the Relay stored under r.url, if any, by r
Store(d, r) == IF HasKey(d, r.url) THEN Put(d, r.url, r) ELSE d

\* AddRelay without the call of relay.connect()
AddRelayNoConnect(t) ==
  /\ pc[t] = "body" /\ call[t].name = "add_relay"
  /\ relays' = Put(relays, call[t].url, RelayNew(call[t].url, call[t].policy))
  /\ issued' = [issued EXCEPT ![call[t].url] = {}]
  /\ pc' = [pc EXCEPT ![t] = "exit"]
  /\ UNCHANGED << lock, stop_threads, call, idx, log, outcome, pre >>

\* add_relay, lines 54-55
AddRelay(t) ==
  /\ pc[t] = "body" /\ call[t].name = "add_relay"
  /\ \E res \in ConnectOutcomes :
       /\ relays' = Put(relays, call[t].url,
                        [RelayNew(call[t].url, call[t].policy) EXCEPT !.connected = (res = "connected")])
       /\ outcome' = [outcome EXCEPT ![t] = IF res = "TransportError" THEN res ELSE "ok"]
  /\ issued' = [issued EXCEPT ![call[t].url] = {}]
  /\ log' = Logged(t, call[t].url, "connect", 0)
  /\ pc' = [pc EXCEPT ![t] = "exit"]
  /\ UNCHANGED << lock, stop_threads, call, idx, pre >>

\* RemoveRelay without the call of relay.close()
RemoveRelayNoClose(t) ==
  /\ pc[t] = "body" /\ call[t].name = "remove_relay"
  /\ IF HasKey(relays, call[t].url)
       THEN /\ relays' = Pop(relays, call[t].url)
            /\ issued' = [issued EXCEPT ![call[t].url] = {}]
       ELSE UNCHANGED << relays, issued >>
  /\ pc' = [pc EXCEPT ![t] = "exit"]
  /\ UNCHANGED << lock, stop_threads, call, idx, log, outcome, pre >>

\* remove_relay, lines 59-61
RemoveRelay(t) ==
  /\ pc[t] = "body" /\ call[t].name = "remove_relay"
  /\ IF HasKey(relays, call[t].url)
       THEN /\ relays' = Pop(relays, call[t].url)
            /\ issued' = [issued EXCEPT ![call[t].url] = {}]
            /\ log' = Logged(t, call[t].url, "close", "")
       ELSE UNCHANGED << relays, issued, log >>
  /\ pc' = [pc EXCEPT ![t] = "exit"]
  /\ UNCHANGED << lock, stop_threads, call, idx, outcome, pre >>

\* AddSubscriptionRecord leaving the lock after the record, before the send
AddSubscriptionRecordUnlocks(t) ==
  /\ pc[t] = "body" /\ call[t].name = "add_subscription_on_relay"
  /\ IF HasKey(relays, call[t].url) /\ Lookup(relays, call[t].url).should_read
       THEN /\ relays' = Store(relays, RelayAddSubscription(Lookup(relays, call[t].url), call[t].id))
            /\ pc' = [pc EXCEPT ![t] = "send"]
            /\ lock' = FALSE
            /\ UNCHANGED outcome
       ELSE /\ outcome' = [outcome EXCEPT ![t] = "RelayException"]
            /\ pc' = [pc EXCEPT ![t] = "exit"]
            /\ UNCHANGED << relays, lock >>
  /\ UNCHANGED << stop_threads, call, idx, log, pre, issued >>

\* AddSubscriptionRecord without the test of relay.policy.should_read
AddSubscriptionRecordNoPolicy(t) ==
  /\ pc[t] = "body" /\ call[t].name = "add_subscription_on_relay"
  /\ IF HasKey(relays, call[t].url)
       THEN /\ relays' = Store(relays, RelayAddSubscription(Lookup(relays, call[t].url), call[t].id))
            /\ pc' = [pc EXCEPT ![t] = "send"]
            /\ UNCHANGED outcome
       ELSE /\ outcome' = [outcome EXCEPT ![t] = "RelayException"]
            /\ pc' = [pc EXCEPT ![t] = "exit"]
            /\ UNCHANGED relays
  /\ UNCHANGED << lock, stop_threads, call, idx, log, pre, issued >>

\* add_subscription_on_relay, lines 65-69 and 72-73
AddSubscriptionRecord(t) ==
  /\ pc[t] = "body" /\ call[t].name = "add_subscription_on_relay"
  /\ IF HasKey(relays, call[t].url)
       THEN LET r == Lookup(relays, call[t].url)
            IN  IF ~ r.should_read
                  THEN /\ outcome' = [outcome EXCEPT ![t] = "RelayException"]
                       /\ pc' = [pc EXCEPT ![t] = "exit"]
                       /\ UNCHANGED relays
                  ELSE /\ relays' = Store(relays, RelayAddSubscription(r, call[t].id))
                       /\ pc' = [pc EXCEPT ![t] = "send"]
                       /\ UNCHANGED outcome
       ELSE /\ outcome' = [outcome EXCEPT ![t] = "RelayException"]
            /\ pc' = [pc EXCEPT ![t] = "exit"]
            /\ UNCHANGED relays
  /\ UNCHANGED << lock, stop_threads, call, idx, log, pre, issued >>

\* AddSubscriptionSend without the call of relay.publish
AddSubscriptionSendSkips(t) ==
  /\ pc[t] = "send" /\ call[t].name = "add_subscription_on_relay"
  /\ pc' = [pc EXCEPT ![t] = "exit"]
  /\ UNCHANGED << relays, lock, stop_threads, call, idx, log, outcome, pre, issued >>

\* add_subscription_on_relay, lines 70-71
AddSubscriptionSend(t) ==
  /\ pc[t] = "send" /\ call[t].name = "add_subscription_on_relay"
  /\ \E r \in PublishOutcomes(RelayOf(call[t].url)) :
       outcome' = [outcome EXCEPT ![t] = r]
  /\ log' = Logged(t, call[t].url, "REQ", call[t].id)
  /\ issued' = [issued EXCEPT ![call[t].url] = @ \cup {call[t].id}]
  /\ pc' = [pc EXCEPT ![t] = "exit"]
  /\ UNCHANGED << relays, lock, stop_threads, call, idx, pre >>

\* add_subscription_on_all_relays, lines 77-79: one iteration of the loop
AddSubscriptionAllRecord(t) ==
  /\ pc[t] = "body" /\ call[t].name = "add_subscription_on_all_relays"
  /\ IF idx[t] > Len(relays)
       THEN /\ pc' = [pc EXCEPT ![t] = "exit"]
            /\ UNCHANGED << relays, idx >>
       ELSE LET r == relays[idx[t]]
            IN  IF r.should_read
                  THEN /\ relays' = Store(relays, RelayAddSubscription(r, call[t].id))
                       /\ pc' = [pc EXCEPT ![t] = "send"]
                       /\ UNCHANGED idx
                  ELSE /\ idx' = [idx EXCEPT ![t] = @ + 1]
                       /\ pc' = [pc EXCEPT ![t] = NextPc(t)]
                       /\ UNCHANGED relays
  /\ UNCHANGED << lock, stop_threads, call, log, outcome, pre, issued >>

\* add_subscription_on_all_relays, lines 80-81
AddSubscriptionAllSend(t) ==
  /\ pc[t] = "send" /\ call[t].name = "add_subscription_on_all_relays"
  /\ LET r == Current(t)
     IN  /\ log' = Logged(t, r.url, "REQ", call[t].id)
         /\ issued' = [u \in Urls |-> IF u = r.url THEN issued[u] \cup {call[t].id} ELSE issued[u]]
         /\ \E res \in PublishOutcomes(r) :
              /\ outcome' = [outcome EXCEPT ![t] = res]
              /\ IF res = "ok"
                   THEN /\ pc' = [pc EXCEPT ![t] = NextPc(t)]
                        /\ idx' = [idx EXCEPT ![t] = @ + 1]
                   ELSE /\ pc' = [pc EXCEPT ![t] = "exit"]
                        /\ UNCHANGED idx
  /\ UNCHANGED << relays, lock, stop_threads, call, pre >>

\* close_subscription_on_relay, lines 85-90
CloseSubscriptionOnRelay(t) ==
  /\ pc[t] = "body" /\ call[t].name = "close_subscription_on_relay"
  /\ IF HasKey(relays, call[t].url)
       THEN LET r == Lookup(relays, call[t].url)
            IN  /\ relays' = Store(relays, RelayCloseSubscription(r, call[t].id))
                /\ issued' = [issued EXCEPT ![r.url] = @ \ {call[t].id}]
                /\ log' = Logged(t, r.url, "CLOSE", call[t].id)
                /\ \E res \in PublishOutcomes(r) :
                     outcome' = [outcome EXCEPT ![t] = res]
       ELSE /\ outcome' = [outcome EXCEPT ![t] = "RelayException"]
            /\ UNCHANGED << relays, issued, log >>
  /\ pc' = [pc EXCEPT ![t] = "exit"]
  /\ UNCHANGED << lock, stop_threads, call, idx, pre >>

\* close_subscription_on_all_relays, lines 94-96: one iteration of the loop
CloseSubscriptionOnAllRelays(t) ==
  /\ pc[t] = "body" /\ call[t].name = "close_subscription_on_all_relays"
  /\ IF idx[t] > Len(relays)
       THEN /\ pc' = [pc EXCEPT ![t] = "exit"]
            /\ UNCHANGED << relays, issued, log, outcome, idx >>
       ELSE LET r == relays[idx[t]]
            IN  /\ relays' = Store(relays, RelayCloseSubscription(r, call[t].id))
                /\ issued' = [issued EXCEPT ![r.url] = @ \ {call[t].id}]
                /\ log' = Logged(t, r.url, "CLOSE", call[t].id)
                /\ \E res \in PublishOutcomes(r) :
                     /\ outcome' = [outcome EXCEPT ![t] = res]
                     /\ IF res = "ok"
                          THEN /\ idx' = [idx EXCEPT ![t] = @ + 1]
                               /\ pc' = [pc EXCEPT ![t] = NextPc(t)]
                          ELSE /\ pc' = [pc EXCEPT ![t] = "exit"]
                               /\ UNCHANGED idx
  /\ UNCHANGED << lock, stop_threads, call, pre >>

\* CloseAllRelayConnections that also takes each closed relay out of the dict
CloseAllRelayConnectionsRemoves(t) ==
  /\ pc[t] = "body" /\ call[t].name = "close_all_relay_connections"
  /\ IF idx[t] > Len(relays)
       THEN /\ pc' = [pc EXCEPT ![t] = "exit"]
            /\ UNCHANGED << relays, log >>
       ELSE LET r == relays[idx[t]]
            IN  /\ relays' = Pop(relays, r.url)
                /\ log' = Logged(t, r.url, "close", "")
                /\ UNCHANGED pc
  /\ UNCHANGED << lock, stop_threads, call, idx, outcome, pre, issued >>

\* close_all_relay_connections, lines 100-102: one iteration of the loop
CloseAllRelayConnections(t) ==
  /\ pc[t] = "body" /\ call[t].name = "close_all_relay_connections"
  /\ IF idx[t] > Len(relays)
       THEN /\ pc' = [pc EXCEPT ![t] = "exit"]
            /\ UNCHANGED << relays, log, idx >>
       ELSE LET r == Lookup(relays, relays[idx[t]].url)
            IN  /\ relays' = Store(relays, RelayClose(r))
                /\ log' = Logged(t, r.url, "close", "")
                /\ idx' = [idx EXCEPT ![t] = @ + 1]
                /\ pc' = [pc EXCEPT ![t] = NextPc(t)]
  /\ UNCHANGED << lock, stop_threads, call, outcome, pre, issued >>

\* PublishEvent without the test of relay.policy.should_write
PublishEventNoPolicy(t) ==
  /\ pc[t] = "body" /\ call[t].name = "publish_event"
  /\ IF idx[t] > Len(relays)
       THEN /\ pc' = [pc EXCEPT ![t] = "exit"]
            /\ UNCHANGED << log, idx >>
       ELSE /\ log' = Logged(t, relays[idx[t]].url, "EVENT", 0)
            /\ idx' = [idx EXCEPT ![t] = @ + 1]
            /\ pc' = [pc EXCEPT ![t] = NextPc(t)]
  /\ UNCHANGED << relays, lock, stop_threads, call, outcome, pre, issued >>

\* publish_event, lines 113-115: one iteration of the loop
PublishEvent(t) ==
  /\ pc[t] = "body" /\ call[t].name = "publish_event"
  /\ IF idx[t] > Len(relays)
       THEN /\ pc' = [pc EXCEPT ![t] = "exit"]
            /\ UNCHANGED << log, outcome, idx >>
       ELSE LET r == relays[idx[t]]
            IN  IF r.should_write
                  THEN /\ log' = Logged(t, r.url, "EVENT", 0)
                       /\ \E res \in PublishOutcomes(r) :
                            /\ outcome' = [outcome EXCEPT ![t] = res]
                            /\ IF res = "ok"
                                 THEN /\ idx' = [idx EXCEPT ![t] = @ + 1]
                                      /\ pc' = [pc EXCEPT ![t] = NextPc(t)]
                                 ELSE /\ pc' = [pc EXCEPT ![t] = "exit"]
                                      /\ UNCHANGED idx
                  ELSE /\ idx' = [idx EXCEPT ![t] = @ + 1]
                       /\ pc' = [pc EXCEPT ![t] = NextPc(t)]
                       /\ UNCHANGED << log, outcome >>
  /\ UNCHANGED << relays, lock, stop_threads, call, pre, issued >>

\* ---------------------------------------------------------- the monitor
\* MonitorCheck without the test of self.stop_threads
MonitorCheckIgnoresStop ==
  /\ pc[Mon] = "check"
  /\ pc' = [pc EXCEPT ![Mon] = "acquire"]
  /\ UNCHANGED << relays, lock, stop_threads, call, idx, log, outcome, pre, issued >>

\* _relay_connection_monitor, line 118 (after line 125 in every iteration
\* but the first): the loop condition, the only read of stop_threads
MonitorCheck ==
  /\ pc[Mon] = "check"
  /\ pc' = [pc EXCEPT ![Mon] = IF stop_threads THEN "stopped" ELSE "acquire"]
  /\ UNCHANGED << relays, lock, stop_threads, call, idx, log, outcome, pre, issued >>

\* _relay_connection_monitor, line 119: the monitor waits for the lock
MonitorAcquire ==
  /\ pc[Mon] = "acquire"
  /\ call' = [call EXCEPT ![Mon] = [NoCall EXCEPT !.name = "monitor"]]
  /\ Acquire(Mon)
  /\ UNCHANGED << relays, stop_threads, log, issued >>

\* _relay_connection_monitor, lines 120-123: one iteration of the sweep
MonitorSweep ==
  /\ pc[Mon] = "body"
  /\ IF idx[Mon] > Len(relays)
       THEN /\ pc' = [pc EXCEPT ![Mon] = "exit"]
            /\ UNCHANGED << relays, log, outcome, idx >>
       ELSE LET r == relays[idx[Mon]]
            IN  IF ~ IsConnected(r)
                  THEN /\ log' = [log EXCEPT ![Mon] =
                              @ \o << << r.url, "is_connected", 0 >>, << r.url, "connect", 1 >> >>]
                       /\ \E res \in ConnectOutcomes :
                            /\ relays' = Store(relays, [r EXCEPT !.connected = (res = "connected")])
                            /\ IF res = "TransportError"
                                 THEN /\ outcome' = [outcome EXCEPT ![Mon] = res]
                                      /\ pc' = [pc EXCEPT ![Mon] = "exit"]
                                      /\ UNCHANGED idx
                                 ELSE /\ idx' = [idx EXCEPT ![Mon] = @ + 1]
                                      /\ pc' = [pc EXCEPT ![Mon] = NextPc(Mon)]
                                      /\ UNCHANGED outcome
                  ELSE /\ log' = Logged(Mon, r.url, "is_connected", 1)
                       /\ idx' = [idx EXCEPT ![Mon] = @ + 1]
                       /\ pc' = [pc EXCEPT ![Mon] = NextPc(Mon)]
                       /\ UNCHANGED << relays, outcome >>
  /\ UNCHANGED << lock, stop_threads, call, pre, issued >>

\* ------------------------------------------------------ the environment
\* stop_threads is a public field: the owner of the manager sets it
SetStopThreads ==
  /\ ~ stop_threads
  /\ stop_threads' = TRUE
  /\ UNCHANGED << relays, lock, pc, call, idx, log, outcome, pre, issued >>

\* the network drops the connection of a registered relay
ConnectionLost(u) ==
  /\ HasKey(relays, u)
  /\ Lookup(relays, u).connected
  /\ relays' = Store(relays, RelayClose(Lookup(relays, u)))
  /\ UNCHANGED << lock, stop_threads, pc, call, idx, log, outcome, pre, issued >>

\* -------------------------------------------------------- specification
CallerStep(t) ==
  \/ \E u \in Urls, p \in Policies : CallAddRelay(t, u, p)
  \/ \E u \in Urls : CallRemoveRelay(t, u)
  \/ \E u \in Urls, id \in SubIds : CallAddSubscriptionOnRelay(t, u, id)
  \/ \E id \in SubIds : CallAddSubscriptionOnAllRelays(t, id)
  \/ \E u \in Urls, id \in SubIds : CallCloseSubscriptionOnRelay(t, u, id)
  \/ \E id \in SubIds : CallCloseSubscriptionOnAllRelays(t, id)
  \/ CallCloseAllRelayConnections(t)
  \/ \E ev \in Events : CallPublishEvent(t, ev)
  \/ Return(t)
  \/ AddRelay(t)
  \/ RemoveRelay(t)
  \/ AddSubscriptionRecord(t)
  \/ AddSubscriptionSend(t)
  \/ AddSubscriptionAllRecord(t)
  \/ AddSubscriptionAllSend(t)
  \/ CloseSubscriptionOnRelay(t)
  \/ CloseSubscriptionOnAllRelays(t)
  \/ CloseAllRelayConnections(t)
  \/ PublishEvent(t)
  \/ Release(t)

Next ==
  \/ \E t \in Callers : CallerStep(t)
  \/ MonitorCheck
  \/ MonitorAcquire
  \/ MonitorSweep
  \/ Release(Mon)
  \/ SetStopThreads
  \/ \E u \in Urls : ConnectionLost(u)

Spec == Init /\ [][Next]_vars

\* the steps thread t takes while it holds the lock, up to its release
Inside(t) ==
  IF t = Mon
    THEN MonitorSweep \/ Release(Mon)
    ELSE \/ AddRelay(t)
         \/ RemoveRelay(t)
         \/ AddSubscriptionRecord(t)
         \/ AddSubscriptionSend(t)
         \/ AddSubscriptionAllRecord(t)
         \/ AddSubscriptionAllSend(t)
         \/ CloseSubscriptionOnRelay(t)
         \/ CloseSubscriptionOnAllRelays(t)
         \/ CloseAllRelayConnections(t)
         \/ PublishEvent(t)
         \/ Release(t)

\* one caller thread and the monitor contend for the lock
NextFair ==
  \/ CallerStep("c1")
  \/ MonitorCheck
  \/ MonitorAcquire
  \/ MonitorSweep
  \/ Release(Mon)
  \/ SetStopThreads
  \/ \E u \in Urls : ConnectionLost(u)

\* a thread that holds the lock keeps running, since every call it makes under
\* the lock returns (weak fairness), and the lock, when it is free again and
\* again, is at some time granted to the waiting monitor (strong fairness)
SpecFair ==
  /\ Init /\ [][NextFair]_vars
  /\ \A t \in Threads : WF_vars(Inside(t))
  /\ SF_vars(MonitorAcquire)

\* ---------------------------------------------------------------- claims
\* a thread is inside a `with self.lock` block
InCS(t) == pc[t] \in {"body", "send", "exit"}

\* the subscription ids recorded on the relay registered under u
SubsOf(d, u) == IF HasKey(d, u) THEN Lookup(d, u).subscriptions ELSE {}

\* thread t has recorded id on the relay of u and has not yet published its REQ
Sending(t, u, id) ==
  /\ pc[t] = "send"
  /\ call[t].id = id
  /\ u = (IF call[t].name = "add_subscription_on_relay" THEN call[t].url ELSE Current(t).url)

\* C1: at most one thread is inside a locked block of the manager (a registry
\* mutation, a fan-out or the monitor's sweep) at any time, and the lock is
\* held while one is.
MutualExclusion ==
  /\ \A t1, t2 \in Threads : (InCS(t1) /\ InCS(t2)) => t1 = t2
  /\ \A t \in Threads : InCS(t) => lock

\* a caller is between record and send while the monitor waits for the lock
MutualExclusionWitness ==
  /\ \E t \in Callers : pc[t] = "send" /\ call[t].name = "add_subscription_on_all_relays"
  /\ pc[Mon] = "acquire"
  /\ lock

\* C2: no subscription record is lost: every id whose subscription was issued
\* on a registered relay (and not closed since) is in that relay's
\* subscription set, and once no subscribe is between its record and its send
\* the set has as many ids as were issued.
NoLostSubscription ==
  \A u \in Urls :
    /\ issued[u] \subseteq SubsOf(relays, u)
    /\ (\A t \in Callers, id \in SubIds : ~ Sending(t, u, id))
         => Cardinality(SubsOf(relays, u)) = Cardinality(issued[u])

\* the second of two subscribes with distinct ids on one relay is done
NoLostSubscriptionWitness ==
  \E t \in Callers :
    /\ pc[t] = "exit" /\ call[t].name = "add_subscription_on_relay"
    /\ SubsOf(pre[t], call[t].url) = SubIds \ {call[t].id}
    /\ SubsOf(relays, call[t].url) = SubIds
    /\ issued[call[t].url] = SubIds

\* C3: a subscription that is recorded on a relay while its REQ is not yet
\* published exists only while the subscribing thread is between its record and
\* its send, holding the lock; no other thread (the monitor's sweep included)
\* is inside a locked block then.
RecordThenSend ==
  \A u \in Urls : \A id \in SubsOf(relays, u) \ issued[u] :
    /\ \E t \in Callers : Sending(t, u, id)
    /\ \A t \in Threads : InCS(t) => Sending(t, u, id)
    /\ lock

\* a subscription is recorded and its REQ not yet published; the monitor waits
RecordThenSendWitness ==
  /\ \E t \in Callers :
       /\ pc[t] = "send" /\ call[t].name = "add_subscription_on_relay"
       /\ call[t].id \in SubsOf(relays, call[t].url) \ issued[call[t].url]
  /\ pc[Mon] = "acquire"

\* every relay other than the one of url u is as thread t found it
OthersUntouched(t, u) ==
  /\ Len(relays) = Len(pre[t])
  /\ \A i \in 1..Len(pre[t]) :
       pre[t][i].url # u => Snapshot(relays)[i] = pre[t][i]
  /\ \A v \in Urls \ {u} : CountLog(log[t], v, "REQ") = 0

\* C4: at the end of a sweep of the monitor every registered relay has been
\* asked is_connected() once; each relay that reported false has had
\* connect(True) invoked exactly once in the sweep and each relay that reported
\* true has had none.
MonitorCycleReconnects ==
  pc[Mon] = "exit" =>
    \A i \in 1..Len(relays) :
      LET u == relays[i].url
      IN  /\ CountLog(log[Mon], u, "is_connected") = 1
          /\ \E j \in 1..Len(log[Mon]) :
               /\ log[Mon][j][1] = u /\ log[Mon][j][2] = "is_connected"
               /\ CountLog(log[Mon], u, "connect") = (IF log[Mon][j][3] = 0 THEN 1 ELSE 0)

\* C5: a reconnect that raises inside the sweep does not terminate the monitor
\* thread: the monitor never leaves its loop because of an exception.
MonitorSurvivesReconnectFailure ==
  pc[Mon] # "crashed"

\* C6: a publish fan-out is not aborted by a failing send and raises nothing:
\* at its end no transport error is on its way to the caller and every writable
\* registered relay has been handed the EVENT.
PublishFanOutIndependent ==
  \A t \in Callers :
    (pc[t] = "exit" /\ call[t].name = "publish_event") =>
      /\ outcome[t] # "TransportError"
      /\ \A i \in 1..Len(relays) :
           relays[i].should_write => CountLog(log[t], relays[i].url, "EVENT") >= 1

\* C7: publish_event of a validly signed event hands exactly one EVENT to
\* every registered relay with should_write and none to a relay without.
PublishExactlyOnce ==
  \A t \in Callers :
    (pc[t] = "exit" /\ call[t].name = "publish_event" /\ call[t].ev = "valid") =>
      \A i \in 1..Len(relays) :
        CountLog(log[t], relays[i].url, "EVENT") = (IF relays[i].should_write THEN 1 ELSE 0)

\* C8: a publish_event whose event is unsigned or fails verification raises
\* the manager's exception without taking the lock: no relay method is invoked
\* and the registry, the relays and their subscriptions stay as they are.
PublishRejectsInvalid ==
  [][\A t \in Callers :
       (pc[t] = "idle" /\ call'[t].name = "publish_event" /\ call'[t].ev # "valid") =>
         /\ pc'[t] = "ret"
         /\ outcome'[t] = "RelayException"
         /\ log' = log
         /\ relays' = relays
         /\ lock' = lock]_vars

\* an unsigned event and an event with a bad signature have been rejected while
\* a writable relay is registered
PublishRejectsInvalidWitness ==
  /\ \E t \in Callers : pc[t] = "ret" /\ call[t].ev = "unsigned" /\ outcome[t] = "RelayException"
  /\ \E t \in Callers : pc[t] = "ret" /\ call[t].ev = "badsig" /\ outcome[t] = "RelayException"
  /\ \E i \in 1..Len(relays) : relays[i].should_write /\ relays[i].connected

\* C9: add_subscription_on_relay(u, id, f) on a registered relay u with
\* should_read records id on u and invokes exactly one publish, the REQ of id,
\* on u; every other relay keeps its subscriptions and receives nothing.
SubscribeRecordsAndSends ==
  \A t \in Callers :
    (/\ pc[t] = "exit" /\ call[t].name = "add_subscription_on_relay"
     /\ HasKey(pre[t], call[t].url)
     /\ Lookup(pre[t], call[t].url).should_read) =>
      /\ SubsOf(relays, call[t].url) = SubsOf(pre[t], call[t].url) \cup {call[t].id}
      /\ log[t] = << << call[t].url, "REQ", call[t].id >> >>
      /\ OthersUntouched(t, call[t].url)

\* a subscribe on one of two readable relays is done
SubscribeRecordsAndSendsWitness ==
  \E t \in Callers :
    /\ pc[t] = "exit" /\ call[t].name = "add_subscription_on_relay"
    /\ outcome[t] = "ok"
    /\ Len(relays) = 2
    /\ \A i \in 1..2 : relays[i].should_read
    /\ call[t].id \notin SubsOf(pre[t], call[t].url)
    /\ call[t].id \in SubsOf(relays, call[t].url)

\* C10: add_subscription_on_relay(u, id, f) raises the manager's exception
\* when u is not registered and when u is registered without should_read; then
\* no relay method has been invoked and every relay is as it was.
SubscribeRejects ==
  \A t \in Callers :
    (/\ pc[t] = "exit" /\ call[t].name = "add_subscription_on_relay"
     /\ (HasKey(pre[t], call[t].url) => ~ Lookup(pre[t], call[t].url).should_read)) =>
      /\ outcome[t] = "RelayException"
      /\ log[t] = << >>
      /\ Snapshot(relays) = pre[t]

\* a subscribe on a registered relay without should_read has raised
SubscribeRejectsWitness ==
  \E t \in Callers :
    /\ pc[t] = "exit" /\ call[t].name = "add_subscription_on_relay"
    /\ HasKey(relays, call[t].url) /\ ~ Lookup(relays, call[t].url).should_read
    /\ outcome[t] = "RelayException"
    /\ Len(relays) = 2

\* thread t is at the end of the locked block of operation op
AtExit(t, op) == pc[t] = "exit" /\ call[t].name = op

\* C11: add_subscription_on_all_relays(id, f) raises nothing, records id on
\* every registered relay with should_read and invokes exactly one publish, the
\* REQ of id, on it; a relay without should_read keeps its subscriptions and
\* receives nothing. This is stated per relay, whatever the order of the dict.
SubscribeAllReadableOnly ==
  \A t \in Callers :
    AtExit(t, "add_subscription_on_all_relays") =>
      /\ outcome[t] = "ok"
      /\ Len(relays) = Len(pre[t])
      /\ \A i \in 1..Len(relays) :
           LET r == relays[i]
           IN  /\ r.url = pre[t][i].url
               /\ CountLog(log[t], r.url, "REQ") = (IF r.should_read THEN 1 ELSE 0)
               /\ r.subscriptions = (IF r.should_read
                                       THEN pre[t][i].subscriptions \cup {call[t].id}
                                       ELSE pre[t][i].subscriptions)

\* C12: every registered relay that has a subscription recorded, or has had a
\* REQ published to it, has should_read; every relay that is handed an EVENT
\* has should_write.
PolicyInvariant ==
  /\ \A i \in 1..Len(relays) :
       (relays[i].subscriptions # {} \/ issued[relays[i].url] # {}) => relays[i].should_read
  /\ \A t \in Threads : \A j \in 1..Len(log[t]) :
       /\ log[t][j][2] = "REQ" => RelayOf(log[t][j][1]).should_read
       /\ log[t][j][2] = "EVENT" => RelayOf(log[t][j][1]).should_write

\* a publish has passed a read-only relay that holds a subscription and has
\* handed the EVENT to a write-only relay
PolicyInvariantWitness ==
  \E t \in Callers :
    /\ AtExit(t, "publish_event")
    /\ Len(relays) = 2 /\ Len(log[t]) = 1
    /\ \E i \in 1..2 : /\ ~ relays[i].should_write
                       /\ relays[i].subscriptions # {}
    /\ \E i \in 1..2 : ~ relays[i].should_read /\ relays[i].should_write

\* C13: at the end of add_relay(u, policy) the dict holds under u the Relay
\* just constructed (the policy given, no subscriptions) and connect() has been
\* invoked on it exactly once, and no other relay method.
AddRelayRegistersAndConnects ==
  \A t \in Callers :
    AtExit(t, "add_relay") =>
      /\ HasKey(relays, call[t].url)
      /\ Snapshot(<< Lookup(relays, call[t].url) >>) =
           << RelayNew(call[t].url, call[t].policy) >>
      /\ log[t] = << << call[t].url, "connect", 0 >> >>

\* add_relay of a new url has returned and the relay is connected
AddRelayRegistersAndConnectsWitness ==
  \E t \in Callers :
    /\ AtExit(t, "add_relay") /\ outcome[t] = "ok"
    /\ ~ HasKey(pre[t], call[t].url)
    /\ Len(relays) = 2
    /\ Lookup(relays, call[t].url).connected

\* C14: the dict never holds two entries with the same url; add_relay with a
\* url that is registered puts the new Relay in the place of the prior one,
\* leaves the other entries alone and invokes no close().
OneEntryPerUrl ==
  /\ \A i, j \in 1..Len(relays) : relays[i].url = relays[j].url => i = j
  /\ \A t \in Callers :
       (AtExit(t, "add_relay") /\ HasKey(pre[t], call[t].url)) =>
         /\ OthersUntouched(t, call[t].url)
         /\ IndexOf(relays, call[t].url, 1) = IndexOf(pre[t], call[t].url, 1)
         /\ Lookup(relays, call[t].url).subscriptions = {}
         /\ \A j \in 1..Len(log[t]) : log[t][j][2] # "close"

\* add_relay has replaced a relay that held a subscription
OneEntryPerUrlWitness ==
  \E t \in Callers :
    /\ AtExit(t, "add_relay")
    /\ HasKey(pre[t], call[t].url)
    /\ Lookup(pre[t], call[t].url).subscriptions # {}
    /\ Lookup(pre[t], call[t].url).should_write # call[t].policy.should_write
    /\ Len(relays) = 2

\* C15: remove_relay(u) of a registered u takes the entry out of the dict and
\* invokes close() on that relay exactly once; of an unregistered u it raises
\* nothing, invokes no relay method and leaves the dict as it is. The other
\* relays are untouched in both cases.
RemoveRelayEffect ==
  \A t \in Callers :
    AtExit(t, "remove_relay") =>
      /\ outcome[t] = "ok"
      /\ IF HasKey(pre[t], call[t].url)
           THEN /\ ~ HasKey(relays, call[t].url)
                /\ Snapshot(relays) = Pop(pre[t], call[t].url)
                /\ log[t] = << << call[t].url, "close", "" >> >>
           ELSE /\ Snapshot(relays) = pre[t]
                /\ log[t] = << >>

\* remove_relay has removed one of two registered relays
RemoveRelayEffectWitness ==
  \E t \in Callers :
    /\ AtExit(t, "remove_relay")
    /\ Len(pre[t]) = 2 /\ Len(relays) = 1
    /\ HasKey(pre[t], call[t].url)

\* C16: at the end of close_all_relay_connections close() has been invoked
\* exactly once on every registered relay and on nothing else, every relay is
\* disconnected, and the dict holds the same entries in the same order.
CloseAllKeepsRegistry ==
  \A t \in Callers :
    AtExit(t, "close_all_relay_connections") =>
      /\ Snapshot(relays) = pre[t]
      /\ Len(log[t]) = Len(relays)
      /\ \A i \in 1..Len(relays) :
           /\ CountLog(log[t], relays[i].url, "close") = 1
           /\ ~ relays[i].connected

\* close_all_relay_connections has closed two relays that stay registered
CloseAllKeepsRegistryWitness ==
  \E t \in Callers :
    /\ AtExit(t, "close_all_relay_connections")
    /\ Len(relays) = 2 /\ Len(log[t]) = 2

\* C17: close_subscription_on_relay(u, id) raises the manager's exception and
\* changes nothing when u is not registered; otherwise it removes id from u,
\* whatever u's policy, and invokes exactly one publish, the CLOSE of id, on u.
\* close_subscription_on_all_relays(id) removes id from every registered relay
\* and invokes exactly one CLOSE publish on each.
CloseSubscriptionEffect ==
  \A t \in Callers :
    /\ AtExit(t, "close_subscription_on_relay") =>
         IF HasKey(pre[t], call[t].url)
           THEN /\ SubsOf(relays, call[t].url) = SubsOf(pre[t], call[t].url) \ {call[t].id}
                /\ log[t] = << << call[t].url, "CLOSE", call[t].id >> >>
           ELSE /\ outcome[t] = "RelayException"
                /\ log[t] = << >>
                /\ Snapshot(relays) = pre[t]
    /\ AtExit(t, "close_subscription_on_all_relays") =>
         \A i \in 1..Len(relays) :
           /\ call[t].id \notin relays[i].subscriptions
           /\ CountLog(log[t], relays[i].url, "CLOSE") = 1

\* C18: the monitor goes only from running to stopped and stopped is terminal.
\* The flag stop_threads is never reset; the monitor stops only at the test of
\* line 118 with the flag set, never inside a sweep; once the flag is set that
\* test leads nowhere but to stopped, so at most the sweep already past the
\* test still runs; a stopped monitor invokes no relay method.
MonitorStops ==
  [][/\ stop_threads => stop_threads'
     /\ pc[Mon] = "stopped" => (pc'[Mon] = "stopped" /\ log'[Mon] = log[Mon])
     /\ (pc[Mon] # "stopped" /\ pc'[Mon] = "stopped") => (pc[Mon] = "check" /\ stop_threads)
     /\ (pc[Mon] = "check" /\ stop_threads) => pc'[Mon] \in {"check", "stopped"}
     /\ (pc[Mon] \in {"acquire", "body", "exit"} /\ pc'[Mon] # pc[Mon]) =>
          pc'[Mon] \in {"body", "exit", "check", "crashed"}]_vars

\* the monitor has stopped while a registered relay is disconnected and the
\* callers go on
MonitorStopsWitness ==
  /\ pc[Mon] = "stopped"
  /\ \E i \in 1..Len(relays) : ~ relays[i].connected
  /\ \E t \in Callers : InCS(t)

\* C19: the lock is held only by a thread inside a locked block, a held lock
\* is always released again, whatever the outcome of the operation that holds
\* it, and the monitor waiting for the lock eventually gets it.
NoDeadlock ==
  /\ [](lock => \E t \in Threads : InCS(t))
  /\ lock ~> ~ lock
  /\ (pc[Mon] = "acquire") ~> (pc[Mon] = "body")

\* the monitor waits for the lock while a caller's operation has failed inside
\* the locked block
NoDeadlockWitness ==
  /\ pc[Mon] = "acquire"
  /\ \E t \in Callers : pc[t] = "exit" /\ outcome[t] = "RelayException"

\* C20: close_all_relay_connections leaves every relay registered and
\* disconnected; a sweep of the monitor has, at its end, invoked connect(True)
\* on every registered relay that did not report connected; the monitor invokes
\* nothing on a relay that is not registered.
CloseDoesNotStick ==
  /\ \A t \in Callers :
       AtExit(t, "close_all_relay_connections") =>
         /\ Keys(relays) = Keys(pre[t])
         /\ \A i \in 1..Len(relays) : ~ IsConnected(relays[i])
  /\ pc[Mon] = "exit" =>
       \A i \in 1..Len(relays) :
         \/ \E j \in 1..Len(log[Mon]) : log[Mon][j] = << relays[i].url, "is_connected", 1 >>
         \/ CountLog(log[Mon], relays[i].url, "connect") = 1
  /\ \A j \in 1..Len(log[Mon]) : HasKey(relays, log[Mon][j][1])

====
